---- MODULE Spec2Model ----
(***************************************************************************)
(* Gaming-highlights pipeline: scene segmentation (VideoTools.detect_scenes),*)
(* the fixed-sequence run (GamingHighlightsAgent.process_video), the two    *)
(* scoring parsers (NemotronAnalyzer._parse_analysis_response and           *)
(* analyze_scene_with_nemotron) and the decide/execute loop of the          *)
(* orchestrator (NemotronAgent.run).                                        *)
(*                                                                         *)
(* Times are exact integers counted in ticks of 1/20 s.  Every input time  *)
(* is a multiple of half a second and every probed duration a multiple of  *)
(* a second, so duration/5 and (start+end)/2 are exact.                    *)
(***************************************************************************)
EXTENDS Integers, Sequences, FiniteSets, TLC

VARIABLES
    pc,               \* position of the running operation
    video,            \* the input video as the media tool reports it
    config,           \* scene_detection bounds of the configuration
    max_scenes,       \* max_scenes argument / MAX_SCENES_TO_ANALYZE
    count,            \* count argument of process_video
    scenes,           \* list returned by detect_scenes
    scene_i,          \* position of the frame/scoring loop in scenes
    analyzed_scenes,  \* process_video: scenes with an analysis
    top_scenes,       \* process_video: ranked_scenes[:count]
    rank,             \* position of the clip loop (1-based)
    results,          \* process_video: clips extracted so far
    ret,              \* value returned by the operation
    calls,            \* external calls made so far, in order
    op,               \* scoring operation under test
    transport,        \* whether the model answered at all
    response,         \* text returned by the model
    record,           \* value returned by the scoring operation
    max_iterations,   \* NemotronAgent.run: the iteration budget
    iteration,        \* NemotronAgent.run: state["iteration"]
    action,           \* NemotronAgent.run: the decision being handled
    history           \* NemotronAgent.run: state["history"]

vars == <<pc, video, config, max_scenes, count, scenes, scene_i,
          analyzed_scenes, top_scenes, rank, results, ret, calls,
          op, transport, response, record,
          max_iterations, iteration, action, history>>

segVars == <<scene_i, analyzed_scenes, top_scenes, rank, results, calls, count>>
scoreVars == <<op, transport, response, record>>
agentVars == <<max_iterations, iteration, action, history>>

\* no orchestrator run is in progress
AgentIdle ==
    /\ max_iterations = 0
    /\ iteration = 0
    /\ action = [kind |-> "none"]
    /\ history = <<>>

----------------------------------------------------------------------------
(* Units and program constants *)

TicksPerSecond == 4 * 5

DefaultMinDuration == 2
DefaultMaxDuration == 60
FallbackChunkSeconds == 15
FallbackParts == 5
MinChunks == 3
MinChunkSeconds == 1
DefaultMaxScenes == 20
DefaultTopClips == 3

Secs(n) == n * TicksPerSecond

Min(a, b) == IF a <= b THEN a ELSE b
Max(a, b) == IF a >= b THEN a ELSE b

----------------------------------------------------------------------------
(* Bounds of the model *)

MaxKeyframes == 3

\* keyframe timestamps the media tool may report: -5, 0, 1.5, 3, 4.5, 10,
\* 70, 100 and 130 seconds
KeyframePool == {-100, 0, 30, 60, 90, 200, 1400, 2000, 2600}

\* probed durations: -1, 0, 3, 6, 20, 80 and 120 seconds
DurationPool == {-20, 0, 60, 120, 400, 1600, 2400}

DefaultConfig == [min_dur |-> Secs(DefaultMinDuration),
                  max_dur |-> Secs(DefaultMaxDuration)]

\* configured bounds: the default 2..60 s, 5..30 s and 0..10 s
ConfigPool ==
    {DefaultConfig,
     [min_dur |-> Secs(5), max_dur |-> Secs(30)],
     [min_dur |-> 0, max_dur |-> Secs(10)]}

MaxScenesPool == {0, 2, DefaultMaxScenes}

ScenarioKeyframes == {0, Secs(10), Secs(25), Secs(40), Secs(70), Secs(120)}

KeyframeSets ==
    {S \in SUBSET KeyframePool : Cardinality(S) <= MaxKeyframes}
        \cup {ScenarioKeyframes}

----------------------------------------------------------------------------
(* Python list helpers *)

\* s[:n]; a negative n counts from the end
PySlice(s, n) ==
    IF n >= 0 THEN SubSeq(s, 1, Min(n, Len(s)))
    ELSE SubSeq(s, 1, Max(0, Len(s) + n))

RECURSIVE SortedSeq(_)
SortedSeq(S) ==
    IF S = {} THEN <<>>
    ELSE LET m == CHOOSE x \in S : \A y \in S : x <= y
         IN  <<m>> \o SortedSeq(S \ {m})

----------------------------------------------------------------------------
(* VideoTools.detect_scenes *)

MkScene(idx, start, end) ==
    [index |-> idx, start |-> start, end |-> end,
     duration |-> end - start, mid_point |-> (start + end) \div 2]

\* timestamps = sorted(set(timestamps))[:max_scenes]
Truncated(kf, ms) == PySlice(SortedSeq(kf), ms)

\* if not timestamps or timestamps[0] != 0: timestamps.insert(0, 0.0)
WithStart(ts) == IF ts = <<>> \/ ts[1] # 0 THEN <<0>> \o ts ELSE ts

\* if duration not in timestamps: timestamps.append(duration)
WithEnd(ts, d) ==
    IF \E k \in 1..Len(ts) : ts[k] = d THEN ts ELSE Append(ts, d)

Boundaries(kf, d, ms) == WithEnd(WithStart(Truncated(kf, ms)), d)

\* index = position of the boundary instead of len(scenes)
RECURSIVE KeyframeLoopGappy(_, _, _, _)
KeyframeLoopGappy(ts, k, acc, cfg) ==
    IF k >= Len(ts) THEN acc
    ELSE LET dur == ts[k + 1] - ts[k]
         IN  KeyframeLoopGappy(ts, k + 1,
                 IF cfg.min_dur <= dur /\ dur <= cfg.max_dur
                 THEN Append(acc, MkScene(k - 1, ts[k], ts[k + 1]))
                 ELSE acc,
                 cfg)

\* for i in range(len(timestamps) - 1): keep the interval when
\* min_dur <= scene_duration <= max_dur; k is i + 1
RECURSIVE KeyframeLoop(_, _, _, _)
KeyframeLoop(ts, k, acc, cfg) ==
    IF k >= Len(ts) THEN acc
    ELSE LET dur == ts[k + 1] - ts[k]
         IN  KeyframeLoop(ts, k + 1,
                 IF cfg.min_dur <= dur /\ dur <= cfg.max_dur
                 THEN Append(acc, MkScene(Len(acc), ts[k], ts[k + 1]))
                 ELSE acc,
                 cfg)

KeyframeScenes(kf, d, ms, cfg) == KeyframeLoop(Boundaries(kf, d, ms), 1, <<>>, cfg)

\* chunk_duration = min(15.0, duration / 5)
ChunkDuration(d) == Min(Secs(FallbackChunkSeconds), d \div FallbackParts)

\* num_chunks = max(3, int(duration / chunk_duration))
NumChunks(d) == Max(MinChunks, d \div ChunkDuration(d))

RECURSIVE FallbackLoop(_, _, _)
FallbackLoop(d, i, acc) ==
    IF i >= NumChunks(d) THEN acc
    ELSE LET start == i * ChunkDuration(d)
             end   == Min((i + 1) * ChunkDuration(d), d)
         IN  FallbackLoop(d, i + 1,
                 IF end - start >= Secs(MinChunkSeconds)
                 THEN Append(acc, MkScene(i, start, end))
                 ELSE acc)

FallbackScenes(d) == FallbackLoop(d, 0, <<>>)

\* the fallback runs when the keyframe path kept nothing and duration > 0
UsesFallback(kf, d, ms, cfg) == KeyframeScenes(kf, d, ms, cfg) = <<>> /\ d > 0

detect_scenes(v, ms, cfg) ==
    IF ~v.probe_ok THEN <<>>
    ELSE IF ~v.keyframes_ok THEN <<>>
    ELSE IF UsesFallback(v.keyframes, v.duration, ms, cfg)
         THEN FallbackScenes(v.duration)
         ELSE KeyframeScenes(v.keyframes, v.duration, ms, cfg)

----------------------------------------------------------------------------
(* Specification of detect_scenes alone *)

Videos ==
    [path_exists : {TRUE}, probe_ok : BOOLEAN, keyframes_ok : BOOLEAN,
     keyframes : KeyframeSets, duration : DurationPool]

NoRecord == [kind |-> "none"]

SegInit ==
    /\ pc = "seg_call"
    /\ video \in Videos
    /\ config \in ConfigPool
    /\ max_scenes \in MaxScenesPool
    /\ count = 0
    /\ scenes = <<>>
    /\ scene_i = 0
    /\ analyzed_scenes = <<>>
    /\ top_scenes = <<>>
    /\ rank = 0
    /\ results = <<>>
    /\ ret = NoRecord
    /\ calls = <<>>
    /\ op = "none"
    /\ transport = "none"
    /\ response = <<>>
    /\ record = NoRecord
    /\ AgentIdle

SegDetect ==
    /\ pc = "seg_call"
    /\ scenes' = detect_scenes(video, max_scenes, config)
    /\ pc' = "seg_done"
    /\ UNCHANGED <<video, config, max_scenes, ret>>
    /\ UNCHANGED segVars
    /\ UNCHANGED scoreVars
    /\ UNCHANGED agentVars

SegNext == SegDetect

SpecSeg == SegInit /\ [][SegNext]_vars

----------------------------------------------------------------------------
(* Claims about detect_scenes, checked under SpecSeg *)

SegReturned == pc = "seg_done"

\* C1: every scene returned by detect_scenes, from the keyframe path or from
\* the equal-chunk fallback, has min <= duration <= max of the configured
\* bounds.
C1_DurationWithinBounds ==
    SegReturned =>
        \A k \in 1..Len(scenes) :
            /\ config.min_dur <= scenes[k].duration
            /\ scenes[k].duration <= config.max_dur

\* C2: every scene returned by detect_scenes satisfies
\* 0 <= start < end <= video_duration and duration = end - start, whatever
\* the keyframe timestamps and the probed duration are.
C2_SceneInsideVideo ==
    SegReturned =>
        \A k \in 1..Len(scenes) :
            /\ 0 <= scenes[k].start
            /\ scenes[k].start < scenes[k].end
            /\ scenes[k].end <= video.duration
            /\ scenes[k].duration = scenes[k].end - scenes[k].start

\* C3: the returned scenes carry the indices 0..n-1 equal to their positions
\* in the list and appear in strictly ascending start order, on both paths.
C3_DenseAscending ==
    SegReturned =>
        \A k \in 1..Len(scenes) :
            /\ scenes[k].index = k - 1
            /\ k > 1 => scenes[k - 1].start < scenes[k].start

\* a keyframe-path result of two or more scenes where an interval that failed
\* the duration filter lies before a kept one
C3_Witness ==
    /\ SegReturned
    /\ Len(scenes) >= 2
    /\ ~UsesFallback(video.keyframes, video.duration, max_scenes, config)
    /\ LET ts == Boundaries(video.keyframes, video.duration, max_scenes)
       IN  \E k \in 1..(Len(ts) - 1) :
               /\ ts[k + 1] - ts[k] < config.min_dur
               /\ ts[k + 1] = scenes[Len(scenes)].start

\* C4: whenever the keyframe path yields zero scenes and the duration is
\* positive, the fallback returns at least 3 chunks, each at least 1 second
\* long, adjacent and together covering [0, videoDuration].
C4_FallbackCovers ==
    ( /\ SegReturned
      /\ video.probe_ok /\ video.keyframes_ok
      /\ UsesFallback(video.keyframes, video.duration, max_scenes, config) )
    =>
        /\ Len(scenes) >= MinChunks
        /\ \A k \in 1..Len(scenes) :
               /\ scenes[k].duration >= Secs(MinChunkSeconds)
               /\ k > 1 => scenes[k].start = scenes[k - 1].end
        /\ scenes[1].start = 0
        /\ scenes[Len(scenes)].end = video.duration

\* C5: when the probed duration is <= 0, detect_scenes returns an empty list
\* for every keyframe timestamp set.
C5_EmptyWhenNoDuration ==
    (SegReturned /\ video.duration <= 0) => scenes = <<>>

\* C6: detect_scenes(video, max_scenes) returns at most max_scenes scenes.
C6_AtMostMaxScenes ==
    SegReturned => Len(scenes) <= max_scenes

----------------------------------------------------------------------------
(* GamingHighlightsAgent.process_video *)

MaxCount == 4

\* count argument: <<>> is None
CountArgs == {<<>>} \cup {<<k>> : k \in -1..MaxCount}

\* if count is None: count = self.top_clips_count
ResolveCount(arg) == IF arg = <<>> THEN DefaultTopClips ELSE arg[1]

\* scores the analyzer may return for a frame
ScorePool == {30, 40, 70, 85, 90}

\* videos of the fixed-sequence runs: a missing path, a failed probe, a failed
\* keyframe probe, a video without duration, one scene (0-10 s) and three
\* scenes (0-3-10-20 s)
RunVideos ==
    { [path_exists |-> FALSE, probe_ok |-> FALSE, keyframes_ok |-> FALSE,
       keyframes |-> {}, duration |-> 0],
      [path_exists |-> TRUE, probe_ok |-> FALSE, keyframes_ok |-> FALSE,
       keyframes |-> {}, duration |-> 0],
      [path_exists |-> TRUE, probe_ok |-> TRUE, keyframes_ok |-> FALSE,
       keyframes |-> {}, duration |-> Secs(20)],
      [path_exists |-> TRUE, probe_ok |-> TRUE, keyframes_ok |-> TRUE,
       keyframes |-> {}, duration |-> 0],
      [path_exists |-> TRUE, probe_ok |-> TRUE, keyframes_ok |-> TRUE,
       keyframes |-> {0}, duration |-> Secs(10)],
      [path_exists |-> TRUE, probe_ok |-> TRUE, keyframes_ok |-> TRUE,
       keyframes |-> {Secs(3), Secs(10)}, duration |-> Secs(20)] }

ScenarioVideo ==
    [path_exists |-> TRUE, probe_ok |-> TRUE, keyframes_ok |-> TRUE,
     keyframes |-> ScenarioKeyframes, duration |-> Secs(120)]

Call(name, arg, ok) == [op |-> name, arg |-> arg, ok |-> ok]

ErrorResult(what) == [kind |-> "error", error |-> what]
Raised(what) == [kind |-> "raise", error |-> what]

\* scene_data = {**scene, 'frame_path': ..., 'analysis': analysis}
SceneData(scene, score) ==
    [index |-> scene.index, start |-> scene.start, end |-> scene.end,
     duration |-> scene.duration, mid_point |-> scene.mid_point,
     analysis |-> [score |-> score]]

\* equal scores end in reverse original order, as sorted() followed by
\* reverse() would leave them
InsertByScoreUnstable(x, s) ==
    LET before == {k \in 1..Len(s) : s[k].analysis.score > x.analysis.score}
        n == Cardinality(before)
    IN  SubSeq(s, 1, n) \o <<x>> \o SubSeq(s, n + 1, Len(s))

\* x, which follows every element of s in the original list, goes behind the
\* elements of s whose score is greater or equal
InsertByScore(x, s) ==
    LET before == {k \in 1..Len(s) : s[k].analysis.score >= x.analysis.score}
        n == Cardinality(before)
    IN  SubSeq(s, 1, n) \o <<x>> \o SubSeq(s, n + 1, Len(s))

\* sorted(analyzed_scenes, key=score, reverse=True): stable, descending
RECURSIVE SortedByScore(_)
SortedByScore(s) ==
    IF s = <<>> THEN <<>>
    ELSE InsertByScore(s[Len(s)], SortedByScore(SubSeq(s, 1, Len(s) - 1)))

\* the sort without reverse=True: lowest score first
TopScenesAscending(analyzed, k) ==
    LET r == SortedByScore(analyzed)
    IN  PySlice([j \in 1..Len(r) |-> r[Len(r) + 1 - j]], k)

\* top_scenes = ranked_scenes[:count]
TopScenes(analyzed, k) == PySlice(SortedByScore(analyzed), k)

ClipResult(r, scene) ==
    [rank |-> r, timestamp |-> scene.start, duration |-> scene.duration,
     score |-> scene.analysis.score, file |-> r]

\* every detected scene is reported as analyzed
OutputMetadataCountingAll ==
    [kind |-> "result",
     total_scenes_detected |-> Len(scenes),
     scenes_analyzed |-> Len(scenes),
     clips_extracted |-> Len(results),
     clips |-> results]

OutputMetadata ==
    [kind |-> "result",
     total_scenes_detected |-> Len(scenes),
     scenes_analyzed |-> Len(analyzed_scenes),
     clips_extracted |-> Len(results),
     clips |-> results]

RunInitWith(vs, cs) ==
    /\ pc = "pv_entry"
    /\ video \in vs
    /\ config = DefaultConfig
    /\ max_scenes = DefaultMaxScenes
    /\ count \in {ResolveCount(a) : a \in cs}
    /\ scenes = <<>>
    /\ scene_i = 0
    /\ analyzed_scenes = <<>>
    /\ top_scenes = <<>>
    /\ rank = 0
    /\ results = <<>>
    /\ ret = NoRecord
    /\ calls = <<>>
    /\ op = "none"
    /\ transport = "none"
    /\ response = <<>>
    /\ record = NoRecord
    /\ AgentIdle

Init == RunInitWith(RunVideos, CountArgs)

inputVars == <<video, config, max_scenes, count>>

\* if not os.path.exists(video_path): return error
PvCheckPath ==
    /\ pc = "pv_entry"
    /\ IF video.path_exists
       THEN pc' = "pv_probe" /\ ret' = ret
       ELSE pc' = "pv_done" /\ ret' = ErrorResult("not_found")
    /\ UNCHANGED <<inputVars, scenes, scene_i, analyzed_scenes, top_scenes,
                   rank, results, calls>>
    /\ UNCHANGED scoreVars
    /\ UNCHANGED agentVars

\* the output directories are made before the probe result is looked at
PvProbeAfterMkdirs ==
    /\ pc = "pv_probe"
    /\ calls' = calls \o <<Call("probe", 0, video.probe_ok), Call("mkdir", 0, TRUE)>>
    /\ IF video.probe_ok
       THEN pc' = "pv_detect" /\ ret' = ret
       ELSE pc' = "pv_done" /\ ret' = ErrorResult("invalid_video")
    /\ UNCHANGED <<inputVars, scenes, scene_i, analyzed_scenes, top_scenes,
                   rank, results>>
    /\ UNCHANGED scoreVars
    /\ UNCHANGED agentVars

\* metadata = get_video_metadata(video_path); error when not exists
PvProbe ==
    /\ pc = "pv_probe"
    /\ calls' = Append(calls, Call("probe", 0, video.probe_ok))
    /\ IF video.probe_ok
       THEN pc' = "pv_mkdir" /\ ret' = ret
       ELSE pc' = "pv_done" /\ ret' = ErrorResult("invalid_video")
    /\ UNCHANGED <<inputVars, scenes, scene_i, analyzed_scenes, top_scenes,
                   rank, results>>
    /\ UNCHANGED scoreVars
    /\ UNCHANGED agentVars

\* clips_dir / metadata_dir / frames_dir .mkdir(parents=True, exist_ok=True)
PvMkdirs ==
    /\ pc = "pv_mkdir"
    /\ \E ok \in BOOLEAN :
        /\ calls' = Append(calls, Call("mkdir", 0, ok))
        /\ IF ok
           THEN pc' = "pv_detect" /\ ret' = ret
           ELSE pc' = "pv_done" /\ ret' = Raised("mkdir")
    /\ UNCHANGED <<inputVars, scenes, scene_i, analyzed_scenes, top_scenes,
                   rank, results>>
    /\ UNCHANGED scoreVars
    /\ UNCHANGED agentVars

\* scenes = detect_scenes(video_path, max_scenes=self.max_scenes)
PvDetect ==
    /\ pc = "pv_detect"
    /\ calls' = Append(calls, Call("detect", 0, TRUE))
    /\ scenes' = detect_scenes(video, max_scenes, config)
    /\ IF scenes' = <<>>
       THEN pc' = "pv_done" /\ ret' = ErrorResult("no_scenes") /\ scene_i' = scene_i
       ELSE pc' = "pv_load" /\ ret' = ret /\ scene_i' = 1
    /\ UNCHANGED <<inputVars, analyzed_scenes, top_scenes, rank, results>>
    /\ UNCHANGED scoreVars
    /\ UNCHANGED agentVars

\* self._ensure_nemotron_loaded()
PvLoadModel ==
    /\ pc = "pv_load"
    /\ \E ok \in BOOLEAN :
        /\ calls' = Append(calls, Call("load", 0, ok))
        /\ IF ok
           THEN pc' = "pv_frame" /\ ret' = ret
           ELSE pc' = "pv_done" /\ ret' = Raised("load")
    /\ UNCHANGED <<inputVars, scenes, scene_i, analyzed_scenes, top_scenes,
                   rank, results>>
    /\ UNCHANGED scoreVars
    /\ UNCHANGED agentVars

\* where the scene loop goes after the scene at scene_i
AfterScene == IF scene_i >= Len(scenes) THEN "pv_rank" ELSE "pv_frame"

\* the scene is scored whether or not its frame was extracted
PvExtractFrameScoringAnyway ==
    /\ pc = "pv_frame"
    /\ \E ok \in BOOLEAN :
        calls' = Append(calls, Call("frame", scenes[scene_i].index, ok))
    /\ pc' = "pv_score"
    /\ scene_i' = scene_i
    /\ UNCHANGED <<inputVars, scenes, analyzed_scenes, top_scenes, rank,
                   results, ret>>
    /\ UNCHANGED scoreVars
    /\ UNCHANGED agentVars

\* a failed frame extraction ends the scene loop
PvExtractFrameStopping ==
    /\ pc = "pv_frame"
    /\ \E ok \in BOOLEAN :
        /\ calls' = Append(calls, Call("frame", scenes[scene_i].index, ok))
        /\ IF ok
           THEN pc' = "pv_score" /\ scene_i' = scene_i
           ELSE pc' = "pv_rank" /\ scene_i' = scene_i + 1
    /\ UNCHANGED <<inputVars, scenes, analyzed_scenes, top_scenes, rank,
                   results, ret>>
    /\ UNCHANGED scoreVars
    /\ UNCHANGED agentVars

\* success = extract_frame(video_path, scene['mid_point'], frame_path)
PvExtractFrame ==
    /\ pc = "pv_frame"
    /\ \E ok \in BOOLEAN :
        /\ calls' = Append(calls, Call("frame", scenes[scene_i].index, ok))
        /\ IF ok
           THEN pc' = "pv_score" /\ scene_i' = scene_i
           ELSE pc' = AfterScene /\ scene_i' = scene_i + 1
    /\ UNCHANGED <<inputVars, scenes, analyzed_scenes, top_scenes, rank,
                   results, ret>>
    /\ UNCHANGED scoreVars
    /\ UNCHANGED agentVars

\* analysis = analyze_gaming_moment(...); analyzed_scenes.append(scene_data);
\* an exception is printed and the scene left out
PvAnalyze ==
    /\ pc = "pv_score"
    /\ \/ \E sc \in ScorePool :
            /\ calls' = Append(calls, Call("score", scenes[scene_i].index, TRUE))
            /\ analyzed_scenes' =
                   Append(analyzed_scenes, SceneData(scenes[scene_i], sc))
       \/ /\ calls' = Append(calls, Call("score", scenes[scene_i].index, FALSE))
          /\ analyzed_scenes' = analyzed_scenes
    /\ pc' = AfterScene
    /\ scene_i' = scene_i + 1
    /\ UNCHANGED <<inputVars, scenes, top_scenes, rank, results, ret>>
    /\ UNCHANGED scoreVars
    /\ UNCHANGED agentVars

\* the emptiness of analyzed_scenes is only noticed by the clip step
PvRankExtractingFirst ==
    /\ pc = "pv_rank"
    /\ IF analyzed_scenes = <<>>
       THEN /\ pc' = "pv_done"
            /\ ret' = ErrorResult("no_analysis")
            /\ calls' = Append(calls, Call("clip", 1, FALSE))
            /\ UNCHANGED <<top_scenes, rank>>
       ELSE /\ top_scenes' = TopScenes(analyzed_scenes, count)
            /\ rank' = 1
            /\ pc' = IF top_scenes' = <<>> THEN "pv_save" ELSE "pv_clip"
            /\ ret' = ret
            /\ calls' = calls
    /\ UNCHANGED <<inputVars, scenes, scene_i, analyzed_scenes, results>>
    /\ UNCHANGED scoreVars
    /\ UNCHANGED agentVars

\* error when nothing was analyzed; else sort by score and cut to count
PvRank ==
    /\ pc = "pv_rank"
    /\ IF analyzed_scenes = <<>>
       THEN /\ pc' = "pv_done"
            /\ ret' = ErrorResult("no_analysis")
            /\ UNCHANGED <<top_scenes, rank>>
       ELSE /\ top_scenes' = TopScenes(analyzed_scenes, count)
            /\ rank' = 1
            /\ pc' = IF top_scenes' = <<>> THEN "pv_save" ELSE "pv_clip"
            /\ ret' = ret
    /\ UNCHANGED <<inputVars, scenes, scene_i, analyzed_scenes, results, calls>>
    /\ UNCHANGED scoreVars
    /\ UNCHANGED agentVars

\* a failed clip extraction ends the clip loop
PvExtractClipStopping ==
    /\ pc = "pv_clip"
    /\ \E ok \in BOOLEAN :
        /\ calls' = Append(calls, Call("clip", rank, ok))
        /\ results' = IF ok
                      THEN Append(results, ClipResult(rank, top_scenes[rank]))
                      ELSE results
        /\ pc' = IF rank >= Len(top_scenes) \/ ~ok THEN "pv_save" ELSE "pv_clip"
    /\ rank' = rank + 1
    /\ UNCHANGED <<inputVars, scenes, scene_i, analyzed_scenes, top_scenes, ret>>
    /\ UNCHANGED scoreVars
    /\ UNCHANGED agentVars

\* for rank, scene in enumerate(top_scenes, 1): extract_clip(...)
PvExtractClip ==
    /\ pc = "pv_clip"
    /\ \E ok \in BOOLEAN :
        /\ calls' = Append(calls, Call("clip", rank, ok))
        /\ results' = IF ok
                      THEN Append(results, ClipResult(rank, top_scenes[rank]))
                      ELSE results
    /\ rank' = rank + 1
    /\ pc' = IF rank >= Len(top_scenes) THEN "pv_save" ELSE "pv_clip"
    /\ UNCHANGED <<inputVars, scenes, scene_i, analyzed_scenes, top_scenes, ret>>
    /\ UNCHANGED scoreVars
    /\ UNCHANGED agentVars

\* a failed write of the metadata file is reported as an error
PvSaveMetadataReporting ==
    /\ pc = "pv_save"
    /\ \E ok \in BOOLEAN :
        /\ calls' = Append(calls, Call("save", 0, ok))
        /\ ret' = IF ok THEN OutputMetadata ELSE ErrorResult("save")
    /\ pc' = "pv_done"
    /\ UNCHANGED <<inputVars, scenes, scene_i, analyzed_scenes, top_scenes,
                   rank, results>>
    /\ UNCHANGED scoreVars
    /\ UNCHANGED agentVars

\* the metadata file is written again when the first write failed
PvSaveMetadataRetrying ==
    /\ pc = "pv_save"
    /\ \E ok \in BOOLEAN :
        calls' = IF ok
                 THEN Append(calls, Call("save", 0, TRUE))
                 ELSE calls \o <<Call("save", 0, FALSE), Call("save", 0, TRUE)>>
    /\ ret' = OutputMetadata
    /\ pc' = "pv_done"
    /\ UNCHANGED <<inputVars, scenes, scene_i, analyzed_scenes, top_scenes,
                   rank, results>>
    /\ UNCHANGED scoreVars
    /\ UNCHANGED agentVars

\* save_metadata(output_metadata, metadata_file); return output_metadata
PvSaveMetadata ==
    /\ pc = "pv_save"
    /\ \E ok \in BOOLEAN :
        calls' = Append(calls, Call("save", 0, ok))
    /\ ret' = OutputMetadata
    /\ pc' = "pv_done"
    /\ UNCHANGED <<inputVars, scenes, scene_i, analyzed_scenes, top_scenes,
                   rank, results>>
    /\ UNCHANGED scoreVars
    /\ UNCHANGED agentVars

Next ==
    \/ PvCheckPath
    \/ PvProbe
    \/ PvMkdirs
    \/ PvDetect
    \/ PvLoadModel
    \/ PvExtractFrame
    \/ PvAnalyze
    \/ PvRank
    \/ PvExtractClip
    \/ PvSaveMetadata

Spec == Init /\ [][Next]_vars

\* the end-to-end scenario of the specification: the 120 s video, top 2
ScenarioInit == RunInitWith({ScenarioVideo}, {<<2>>})

SpecScenario == ScenarioInit /\ [][Next]_vars

----------------------------------------------------------------------------
(* Claims about process_video, checked under Spec and SpecScenario *)

\* process_video has passed the ranking step without an error
Ranked ==
    \/ pc \in {"pv_clip", "pv_save"}
    \/ pc = "pv_done" /\ ret.kind = "result"

ScoreAt(s, k) == s[k].analysis.score

\* C7: for any list of analyzed scenes and any k >= 0 the selection is ordered
\* by descending score, scenes of equal score appear in ascending original
\* scene index, and the selection has length min(k, number of analyzed scenes).
C7_SelectionOrdered ==
    (Ranked /\ count >= 0) =>
        /\ Len(top_scenes) = Min(count, Len(analyzed_scenes))
        /\ \A a, b \in 1..Len(top_scenes) :
               a < b =>
                   \/ ScoreAt(top_scenes, a) > ScoreAt(top_scenes, b)
                   \/ /\ ScoreAt(top_scenes, a) = ScoreAt(top_scenes, b)
                      /\ top_scenes[a].index < top_scenes[b].index

\* three analyzed scenes, top 2 selected, the two selected tie, and the sort
\* moved them ahead of a lower-scored earlier scene
C7_Witness ==
    /\ Ranked
    /\ count = 2
    /\ Len(analyzed_scenes) = 3
    /\ Len(top_scenes) = 2
    /\ ScoreAt(top_scenes, 1) = ScoreAt(top_scenes, 2)
    /\ ScoreAt(analyzed_scenes, 1) < ScoreAt(top_scenes, 1)

\* C8: selecting with k <= 0 yields an empty selection; selecting with k
\* greater than the number of analyzed scenes yields all analyzed scenes.
C8_SelectionEdgeCases ==
    Ranked =>
        /\ count <= 0 => top_scenes = <<>>
        /\ count > Len(analyzed_scenes) =>
               Len(top_scenes) = Len(analyzed_scenes)

ScenarioDurations == <<Secs(10), Secs(15), Secs(15), Secs(30), Secs(50)>>
ScenarioScores == <<40, 90, 70, 85, 30>>

\* detect_scenes has returned inside process_video
Detected == \E k \in 1..Len(calls) : calls[k].op = "detect"

\* every detected scene was analyzed and got the scenario's score
ScenarioScored ==
    /\ Len(analyzed_scenes) = Len(ScenarioScores)
    /\ \A k \in 1..Len(analyzed_scenes) :
           /\ analyzed_scenes[k].index = k - 1
           /\ ScoreAt(analyzed_scenes, k) = ScenarioScores[k]

AllClipsExtracted ==
    \A k \in 1..Len(calls) : calls[k].op = "clip" => calls[k].ok

\* C9: the 120 s video with keyframes [0,10,25,40,70,120] and bounds 2..60 is
\* segmented into exactly 5 scenes with durations [10,15,15,30,50] and indices
\* 0..4; with scores [40,90,70,85,30] and k = 2 the ranked clips are scene 1
\* (score 90) at rank 1 and scene 3 (score 85) at rank 2.
C9_EndToEnd ==
    /\ Detected =>
           /\ Len(scenes) = Len(ScenarioDurations)
           /\ \A k \in 1..Len(scenes) :
                  /\ scenes[k].duration = ScenarioDurations[k]
                  /\ scenes[k].index = k - 1
    /\ (Ranked /\ ScenarioScored) =>
           /\ Len(top_scenes) = 2
           /\ top_scenes[1].index = 1 /\ ScoreAt(top_scenes, 1) = 90
           /\ top_scenes[2].index = 3 /\ ScoreAt(top_scenes, 2) = 85
    /\ (pc = "pv_done" /\ ret.kind = "result" /\ ScenarioScored
            /\ AllClipsExtracted) =>
           ret.clips =
               << [rank |-> 1, timestamp |-> Secs(10), duration |-> Secs(15),
                   score |-> 90, file |-> 1],
                  [rank |-> 2, timestamp |-> Secs(40), duration |-> Secs(30),
                   score |-> 85, file |-> 2] >>

\* the scenario run has returned its result with both clips extracted
C9_Witness ==
    /\ pc = "pv_done"
    /\ ret.kind = "result"
    /\ ScenarioScored
    /\ count = 2
    /\ Len(ret.clips) = 2

----------------------------------------------------------------------------
(* Scoring: response texts *)

(* A response text is a sequence of tokens, each standing for a fixed piece  *)
(* of text:                                                                  *)
(*   TO  <think>          TC  </think>       LB  {        RB  }              *)
(*   NL  line break       W   Great clutch play           LONG  300 letters  *)
(*   KS  "score":         N85 85             N105 105     COMMA ,            *)
(*   N30 30                                                                  *)
(*   KD  "description":"Epic"                KR  "reasoning":"Clutch"        *)
(*   KH  "is_highlight":true                                                 *)
(* EPIC, CLUTCH, GM ("Gaming moment") and FAIL ("Failed to parse response")  *)
(* occur in returned strings only.                                           *)
(* Members of an orchestrator decision:                                      *)
(*   KTD "tool":"detect_scenes"   KTA "tool":"analyze_scene"                 *)
(*   KTE "tool":"extract_clip"    KTX "tool":"fly"                           *)
(*   KP0 "params":{"scene_index":0}   KP1 "params":{"scene_index":1}         *)
(*   KDT "done":true   KDF "done":false   KRN "reasoning":null               *)
(* Member of a detect_scenes result:  KC "count":                            *)

MaxTextLen == 4

BaseTokens == {"TO", "TC", "LB", "RB", "NL", "W", "LONG", "KS", "N85", "N105"}

TokLen(t) ==
    CASE t = "TO" -> 7 [] t = "TC" -> 8 [] t = "LB" -> 1 [] t = "RB" -> 1
      [] t = "NL" -> 1 [] t = "W" -> 17 [] t = "LONG" -> 300 [] t = "KS" -> 8
      [] t = "N85" -> 2 [] t = "N105" -> 3 [] t = "COMMA" -> 1
      [] t = "N30" -> 2 [] t = "FAIL" -> 24
      [] t = "KD" -> 20 [] t = "KR" -> 20 [] t = "KH" -> 19
      [] t = "EPIC" -> 4 [] t = "CLUTCH" -> 6 [] t = "GM" -> 13

RECURSIVE CharLen(_)
CharLen(toks) ==
    IF toks = <<>> THEN 0 ELSE TokLen(toks[1]) + CharLen(Tail(toks))

IsNumTok(t) == t \in {"N85", "N105", "N30"}
NumVal(t) == IF t = "N85" THEN 85 ELSE IF t = "N30" THEN 30 ELSE 105
NumShift(t) == IF t = "N105" THEN 1000 ELSE 100

\* the token starts, or ends, with a letter or a digit
StartsWord(t) == t \in {"W", "LONG", "N85", "N105", "N30"}
EndsWord(t) == t \in {"W", "LONG", "N85", "N105", "N30", "KH"}

\* a string that is the first len characters of the text toks
Str(toks, len) == [text |-> toks, len |-> len]
WholeStr(toks) == Str(toks, CharLen(toks))
\* s[:n] of a string
StrPrefix(s, n) == Str(s.text, Min(s.len, n))

\* {"score":n,"description":"Epic","reasoning":"Clutch"}
WellFormed(n) == <<"LB", "KS", n, "COMMA", "KD", "COMMA", "KR", "RB">>

WellFormedTexts == {WellFormed(n) : n \in {"N85", "N30"}}

\* <think>...</think>{"score":105,"description":"Epic"}
ThinkScenarioText == <<"TO", "W", "TC", "LB", "KS", "N105", "COMMA", "KD", "RB">>

\* the texts of the scenarios of the specification and well-formed answers
ScenarioTexts ==
    WellFormedTexts \cup
    { ThinkScenarioText,
      <<"LB", "KS", "N30", "COMMA", "KH", "RB">>,
      <<"LB", "KS", "N85", "COMMA", "KH", "RB">>,
      <<"LB", "KS", "N105", "COMMA", "KS", "N85", "RB">>,
      <<"W", "NL", "KS", "N105", "NL", "KS", "N85">>,
      <<"LONG", "LONG">> }

RECURSIVE TextsOfLen(_)
TextsOfLen(n) ==
    IF n = 0 THEN {<<>>}
    ELSE {Append(t, x) : t \in TextsOfLen(n - 1), x \in BaseTokens}

\* every text of at most n base tokens, and the scenario texts
Texts(n) == UNION {TextsOfLen(m) : m \in 0..n} \cup ScenarioTexts

\* positions of token t in toks
Positions(toks, t) == {k \in 1..Len(toks) : toks[k] = t}
SetMin(S) == CHOOSE x \in S : \A y \in S : x <= y
SetMax(S) == CHOOSE x \in S : \A y \in S : x >= y

----------------------------------------------------------------------------
(* NemotronAnalyzer._parse_analysis_response *)

DefaultScore == 50
HighlightThreshold == 70
MaxDescription == 100
MinDescription == 10
MaxReasoning == 500

\* a JSON number as Python holds it
JsonNumber(n) == [kind |-> "number", value |-> n]

\* response.split('\n')
RECURSIVE SplitLines(_)
SplitLines(toks) ==
    IF Positions(toks, "NL") = {} THEN <<toks>>
    ELSE LET k == SetMin(Positions(toks, "NL"))
         IN  <<SubSeq(toks, 1, k - 1)>>
                 \o SplitLines(SubSeq(toks, k + 1, Len(toks)))

\* 'score' in line or 'excitement' in line
HasScoreWord(line) == \E k \in 1..Len(line) : line[k] = "KS"

\* re.findall(r'\b(\d{1,3})\b', line): the numbers of one to three digits that
\* no letter or digit touches
RECURSIVE NumbersFrom(_, _)
NumbersFrom(line, k) ==
    IF k > Len(line) THEN <<>>
    ELSE IF /\ IsNumTok(line[k])
            /\ k > 1 => ~EndsWord(line[k - 1])
            /\ k < Len(line) => ~StartsWord(line[k + 1])
         THEN <<NumVal(line[k])>> \o NumbersFrom(line, k + 1)
         ELSE NumbersFrom(line, k + 1)

Numbers(line) == NumbersFrom(line, 1)

\* takes the number without the 0..100 range check
RECURSIVE ScanScoreUnchecked(_, _)
ScanScoreUnchecked(lines, k) ==
    IF k > Len(lines) THEN DefaultScore
    ELSE IF HasScoreWord(lines[k]) /\ Numbers(lines[k]) # <<>>
         THEN Numbers(lines[k])[1]
         ELSE ScanScoreUnchecked(lines, k + 1)

\* the first line naming the score whose first number lies in 0..100 gives
\* the score; the default stays otherwise
RECURSIVE ScanScore(_, _)
ScanScore(lines, k) ==
    IF k > Len(lines) THEN DefaultScore
    ELSE IF /\ HasScoreWord(lines[k])
            /\ Numbers(lines[k]) # <<>>
            /\ Numbers(lines[k])[1] \in 0..100
         THEN Numbers(lines[k])[1]
         ELSE ScanScore(lines, k + 1)

\* the first line when it is longer than 10 and shorter than 100 characters
AnalyzerDescription(resp) ==
    LET first == SplitLines(resp)[1]
    IN  IF /\ resp # <<>>
           /\ CharLen(first) > MinDescription
           /\ CharLen(first) < MaxDescription
        THEN WholeStr(first)
        ELSE WholeStr(<<"GM">>)

parse_analysis_response(resp) ==
    LET score == ScanScore(SplitLines(resp), 1)
    IN  [kind |-> "dict",
         score |-> <<JsonNumber(score)>>,
         reasoning |-> <<StrPrefix(WholeStr(resp), MaxReasoning)>>,
         is_highlight |-> <<score >= HighlightThreshold>>,
         description |-> <<StrPrefix(AnalyzerDescription(resp), MaxDescription)>>,
         raw_response |-> <<WholeStr(resp)>>]

\* analyze_gaming_moment: generation may raise, then the answer is parsed
analyze_gaming_moment(tr, resp) ==
    IF tr = "error" THEN Raised("generate") ELSE parse_analysis_response(resp)

----------------------------------------------------------------------------
(* analyze_scene_with_nemotron and json.loads *)

\* Python integers are unbounded: every number from a million up is held as
\* a million
BigNumber == 1000 * 1000

\* the digits of adjacent number tokens read as one number
RECURSIVE RunValue(_, _)
RunValue(toks, acc) ==
    IF toks = <<>> \/ ~IsNumTok(toks[1]) THEN acc
    ELSE RunValue(Tail(toks),
             Min(BigNumber, acc * NumShift(toks[1]) + NumVal(toks[1])))

RECURSIVE RunLength(_)
RunLength(toks) ==
    IF toks = <<>> \/ ~IsNumTok(toks[1]) THEN 0 ELSE 1 + RunLength(Tail(toks))

\* JSON lexemes: line breaks are white space, a run of digits is one number
RECURSIVE Lex(_)
Lex(toks) ==
    IF toks = <<>> THEN <<>>
    ELSE IF toks[1] = "NL" THEN Lex(Tail(toks))
    ELSE IF IsNumTok(toks[1])
         THEN <<[t |-> "NUM", v |-> RunValue(toks, 0)]>>
                  \o Lex(SubSeq(toks, RunLength(toks) + 1, Len(toks)))
         ELSE <<[t |-> toks[1], v |-> 0]>> \o Lex(Tail(toks))

EmptyDict ==
    [kind |-> "dict", score |-> <<>>, reasoning |-> <<>>,
     is_highlight |-> <<>>, description |-> <<>>,
     tool |-> <<>>, params |-> <<>>, done |-> <<>>, count |-> <<>>]

JsonString(name) == [kind |-> "string", value |-> name]
JsonNull == [kind |-> "null"]
SceneParams(k) == [kind |-> "dict", scene_index |-> k]

DecisionMembers == {"KTD", "KTA", "KTE", "KTX", "KP0", "KP1", "KDT", "KDF", "KRN"}

\* the object d with the member that token t stands for
WithMember(d, t) ==
    CASE t = "KTD" -> [d EXCEPT !.tool = <<JsonString("detect_scenes")>>]
      [] t = "KTA" -> [d EXCEPT !.tool = <<JsonString("analyze_scene")>>]
      [] t = "KTE" -> [d EXCEPT !.tool = <<JsonString("extract_clip")>>]
      [] t = "KTX" -> [d EXCEPT !.tool = <<JsonString("fly")>>]
      [] t = "KP0" -> [d EXCEPT !.params = <<SceneParams(0)>>]
      [] t = "KP1" -> [d EXCEPT !.params = <<SceneParams(1)>>]
      [] t = "KDT" -> [d EXCEPT !.done = <<TRUE>>]
      [] t = "KDF" -> [d EXCEPT !.done = <<FALSE>>]
      [] t = "KRN" -> [d EXCEPT !.reasoning = <<JsonNull>>]

ParseFail == [ok |-> FALSE, rest |-> <<>>, val |-> EmptyDict]
ParseOk(val, rest) == [ok |-> TRUE, rest |-> rest, val |-> val]

RECURSIVE ParseValue(_)
RECURSIVE ParseMembers(_, _)

\* after a member: } ends the object, a comma asks for another member
ParseMore(lx, d) ==
    IF lx = <<>> THEN ParseFail
    ELSE IF lx[1].t = "RB" THEN ParseOk(d, Tail(lx))
    ELSE IF lx[1].t = "COMMA" THEN ParseMembers(Tail(lx), d)
    ELSE ParseFail

\* one "key": value member; a repeated key keeps the last value
ParseMembers(lx, d) ==
    IF lx = <<>> THEN ParseFail
    ELSE IF lx[1].t = "KS"
         THEN LET v == ParseValue(Tail(lx))
              IN  IF v.ok
                  THEN ParseMore(v.rest, [d EXCEPT !.score = <<v.val>>])
                  ELSE ParseFail
    ELSE IF lx[1].t = "KC"
         THEN LET v == ParseValue(Tail(lx))
              IN  IF v.ok
                  THEN ParseMore(v.rest, [d EXCEPT !.count = <<v.val>>])
                  ELSE ParseFail
    ELSE IF lx[1].t = "KD"
         THEN ParseMore(Tail(lx),
                  [d EXCEPT !.description = <<WholeStr(<<"EPIC">>)>>])
    ELSE IF lx[1].t = "KR"
         THEN ParseMore(Tail(lx),
                  [d EXCEPT !.reasoning = <<WholeStr(<<"CLUTCH">>)>>])
    ELSE IF lx[1].t = "KH"
         THEN ParseMore(Tail(lx), [d EXCEPT !.is_highlight = <<TRUE>>])
    ELSE IF lx[1].t \in DecisionMembers
         THEN ParseMore(Tail(lx), WithMember(d, lx[1].t))
    ELSE ParseFail

ParseValue(lx) ==
    IF lx = <<>> THEN ParseFail
    ELSE IF lx[1].t = "NUM" THEN ParseOk(JsonNumber(lx[1].v), Tail(lx))
    ELSE IF lx[1].t = "LB"
         THEN IF Len(lx) >= 2 /\ lx[2].t = "RB"
              THEN ParseOk(EmptyDict, SubSeq(lx, 3, Len(lx)))
              ELSE ParseMembers(Tail(lx), EmptyDict)
    ELSE ParseFail

\* json.loads(text): the value, or JSONDecodeError
JsonLoads(toks) ==
    LET r == ParseValue(Lex(toks))
    IN  IF r.ok /\ r.rest = <<>> THEN r.val ELSE Raised("json")

\* content[start:end] from the first { to the last }, else the whole content
BraceSpan(content) ==
    LET lb == Positions(content, "LB")
        rb == Positions(content, "RB")
        start == IF lb = {} THEN -1 ELSE SetMin(lb) - 1
        end == IF rb = {} THEN 0 ELSE SetMax(rb)
    IN  IF start >= 0 /\ end > start
        THEN SubSeq(content, start + 1, end)
        ELSE content

\* the request may raise; the answer is returned as json.loads gives it
analyze_scene_with_nemotron(tr, content) ==
    IF tr = "error" THEN Raised("transport") ELSE JsonLoads(BraceSpan(content))

----------------------------------------------------------------------------
(* Specification of the scoring operations *)

ScoreInit ==
    /\ pc = "sc_call"
    /\ response \in Texts(MaxTextLen)
    /\ op \in {"analyzer", "client"}
    /\ transport \in {"ok", "error"}
    /\ record = NoRecord
    /\ AgentIdle
    /\ video = ScenarioVideo
    /\ config = DefaultConfig
    /\ max_scenes = DefaultMaxScenes
    /\ count = 0
    /\ scenes = <<>>
    /\ scene_i = 0
    /\ analyzed_scenes = <<>>
    /\ top_scenes = <<>>
    /\ rank = 0
    /\ results = <<>>
    /\ ret = NoRecord
    /\ calls = <<>>

pipelineVars == <<video, config, max_scenes, count, scenes, scene_i,
                  analyzed_scenes, top_scenes, rank, results, ret, calls>>

\* NemotronAnalyzer.analyze_gaming_moment
ScoreWithAnalyzer ==
    /\ pc = "sc_call"
    /\ op = "analyzer"
    /\ record' = analyze_gaming_moment(transport, response)
    /\ pc' = "sc_done"
    /\ UNCHANGED <<op, transport, response>>
    /\ UNCHANGED pipelineVars
    /\ UNCHANGED agentVars

\* analyze_scene_with_nemotron
ScoreWithClient ==
    /\ pc = "sc_call"
    /\ op = "client"
    /\ record' = analyze_scene_with_nemotron(transport, response)
    /\ pc' = "sc_done"
    /\ UNCHANGED <<op, transport, response>>
    /\ UNCHANGED pipelineVars
    /\ UNCHANGED agentVars

ScoreNext == ScoreWithAnalyzer \/ ScoreWithClient

SpecScore == ScoreInit /\ [][ScoreNext]_vars

\* the scoring operation returned a record whose score is an integer in 0..100
ValidScore(r) ==
    /\ r.kind = "dict"
    /\ Len(r.score) = 1
    /\ r.score[1].kind = "number"
    /\ r.score[1].value \in 0..100

\* C10: for any response text returned by the scoring model the scoring
\* operation returns a ScoreRecord whose score is an integer in [0,100] and
\* never raises.
C10_ScoreAlwaysValid ==
    (pc = "sc_done" /\ transport = "ok") => ValidScore(record)

ScoreReturned == pc = "sc_done" /\ transport = "ok"

\* C11: in every ScoreRecord returned by the scoring operation is_highlight
\* is present and equals (score >= 70); an is_highlight value supplied in the
\* response never determines it.
C11_HighlightDerived ==
    (ScoreReturned /\ record.kind = "dict") =>
        /\ Len(record.is_highlight) = 1
        /\ Len(record.score) = 1
        /\ record.score[1].kind = "number"
        /\ record.is_highlight[1] = (record.score[1].value >= HighlightThreshold)

\* C12: the response <think>garbage</think>{"score":105,"description":"Epic"}
\* parses to a ScoreRecord with score 50, description "Epic" and
\* is_highlight false.
C12_ThinkScenario ==
    (ScoreReturned /\ response = ThinkScenarioText) =>
        /\ record.kind = "dict"
        /\ record.score = <<JsonNumber(DefaultScore)>>
        /\ record.description = <<WholeStr(<<"EPIC">>)>>
        /\ record.is_highlight = <<FALSE>>

\* the token of a number that a token stands for
NumToken(v) == IF v = 85 THEN "N85" ELSE IF v = 30 THEN "N30" ELSE "N105"

\* the members of a record as json.dumps writes them, in the order of the keys
DumpMembers(r) ==
    (IF r.score # <<>> THEN <<<<"KS", NumToken(r.score[1].value)>>>> ELSE <<>>)
    \o (IF r.description # <<>> THEN <<<<"KD">>>> ELSE <<>>)
    \o (IF r.reasoning # <<>> THEN <<<<"KR">>>> ELSE <<>>)
    \o (IF r.is_highlight # <<>> THEN <<<<"KH">>>> ELSE <<>>)

RECURSIVE JoinMembers(_)
JoinMembers(ms) ==
    IF ms = <<>> THEN <<>>
    ELSE IF Len(ms) = 1 THEN ms[1]
    ELSE ms[1] \o <<"COMMA">> \o JoinMembers(Tail(ms))

\* json.dumps of a record whose strings are "Epic" and "Clutch"
json_dumps(r) == <<"LB">> \o JoinMembers(DumpMembers(r)) \o <<"RB">>

\* the scoring operation that produced the record, applied to a text
ScoreAgain(text) ==
    IF op = "analyzer" THEN analyze_gaming_moment("ok", text)
    ELSE analyze_scene_with_nemotron("ok", text)

\* score, description and reasoning of the record are those of WellFormed(n)
FieldsMatch(r, n) ==
    /\ r.kind = "dict"
    /\ r.score = <<JsonNumber(NumVal(n))>>
    /\ r.description = <<WholeStr(<<"EPIC">>)>>
    /\ r.reasoning = <<WholeStr(<<"CLUTCH">>)>>

\* C13: parsing a well-formed structured response with score in [0,100],
\* description and reasoning yields a record with these three fields, and
\* serializing the record and parsing it again yields the same fields.
C13_WellFormedRoundTrip ==
    (ScoreReturned /\ response \in WellFormedTexts) =>
        /\ FieldsMatch(record, response[3])
        /\ FieldsMatch(ScoreAgain(json_dumps(record)), response[3])

----------------------------------------------------------------------------
(* NemotronAgent.run: the decide/execute loop *)

MaxIterations == 3

\* the tool catalogue handed to run
ToolNames == {"detect_scenes", "analyze_scene", "extract_clip"}

\* answers of the orchestrator model to the decision prompt
DecisionTexts ==
    { <<"LB", "KTD", "RB">>,
      <<"LB", "KTA", "COMMA", "KP0", "COMMA", "KR", "COMMA", "KDF", "RB">>,
      <<"LB", "KTE", "COMMA", "KP0", "RB">>,
      <<"LB", "KTX", "RB">>,
      <<"TO", "W", "TC", "LB", "KTA", "COMMA", "KP1", "RB">>,
      <<"TO", "LB", "KTD", "RB">>,
      <<"W", "LB", "KTD", "RB", "W">>,
      <<"LB", "KTD", "COMMA", "KDT", "RB">>,
      <<"LB", "KTE", "COMMA", "KR", "COMMA", "KDT", "RB">>,
      <<"LB", "KDT", "RB">>,
      <<"LB", "KR", "RB">>,
      <<"LB", "RB">>,
      <<>>,
      <<"W">>,
      <<"TO", "W">>,
      <<"LB", "KTD">>,
      <<"LB", "KTD", "RB", "TO">>,
      <<"N85">>,
      <<"LB", "KTD", "COMMA", "KRN", "RB">>,
      <<"LB", "KTD", "COMMA", "KRN", "COMMA", "KDT", "RB">> }

\* _extract_json: text after </think>, or after an unclosed <think>
StripThink(text) ==
    LET to == Positions(text, "TO")
    IN  IF to = {} THEN text
        ELSE LET tc == {k \in Positions(text, "TC") : k > SetMin(to)}
             IN  IF tc # {}
                 THEN SubSeq(text, SetMin(tc) + 1, Len(text))
                 ELSE SubSeq(text, SetMin(to) + 1, Len(text))

\* _extract_json: json.loads of the span from the first { to the last }, or
\* of the whole remaining text
extract_json(text) == JsonLoads(BraceSpan(StripThink(text)))

\* the action _decide_action returns when the answer cannot be parsed
FallbackAction ==
    [EmptyDict EXCEPT !.tool = <<JsonString("done")>>,
                      !.reasoning = <<WholeStr(<<"FAIL">>)>>,
                      !.done = <<TRUE>>]

\* the request inside the try: a failed request gives the fallback action too
decide_actionCatching(tr, text) ==
    IF tr = "error" THEN FallbackAction
    ELSE IF extract_json(text).kind = "raise" THEN FallbackAction
    ELSE extract_json(text)

\* _decide_action: the request may raise; an unparsable answer gives the
\* fallback action
decide_action(tr, text) ==
    IF tr = "error" THEN Raised("api")
    ELSE IF extract_json(text).kind = "raise" THEN FallbackAction
    ELSE extract_json(text)

\* run, lines 50-59: where the loop goes with the action a
AfterDecision(a) ==
    IF a.kind = "raise" THEN "ag_raised"
    ELSE IF a.kind # "dict" THEN "ag_raised"
    ELSE IF a = EmptyDict \/ a.tool = <<>> THEN "ag_invalid"
    ELSE IF a.reasoning # <<>> /\ a.reasoning[1] = JsonNull THEN "ag_raised"
    ELSE IF a.done = <<TRUE>> THEN "ag_done"
    ELSE "ag_execute"

HistoryResult(h) == [kind |-> "history", history |-> h]

SuccessRecord(i, a) ==
    [iteration |-> i, action |-> a, success |-> TRUE, result |-> "ok"]
FailureRecord(i, a, e) ==
    [iteration |-> i, action |-> a, success |-> FALSE, error |-> e]

\* tools[action['tool']] finds a tool
KnownTool(a) == a.tool[1].kind = "string" /\ a.tool[1].value \in ToolNames

AgentInit ==
    /\ pc = "ag_decide"
    /\ max_iterations \in 0..MaxIterations
    /\ iteration = 0
    /\ action = [kind |-> "none"]
    /\ history = <<>>
    /\ op = "agent"
    /\ transport = "none"
    /\ response = <<>>
    /\ record = NoRecord
    /\ video = ScenarioVideo
    /\ config = DefaultConfig
    /\ max_scenes = DefaultMaxScenes
    /\ count = ResolveCount(<<>>)
    /\ scenes = <<>>
    /\ scene_i = 0
    /\ analyzed_scenes = <<>>
    /\ top_scenes = <<>>
    /\ rank = 0
    /\ results = <<>>
    /\ ret = NoRecord
    /\ calls = <<>>

agentFrame == <<video, config, max_scenes, count, scenes, scene_i,
                analyzed_scenes, top_scenes, rank, results, op, record,
                max_iterations>>

\* one pass of the loop up to the tool call: state["iteration"] = i + 1,
\* action = self._decide_action(state, tools), validation, the done test
AgDecide ==
    /\ pc = "ag_decide"
    /\ iteration < max_iterations
    /\ iteration' = iteration + 1
    /\ \E tr \in {"ok", "error"}, text \in DecisionTexts :
        /\ transport' = tr
        /\ response' = IF tr = "ok" THEN text ELSE <<>>
        /\ calls' = Append(calls, Call("decide", iteration + 1, tr = "ok"))
        /\ action' = decide_action(tr, text)
    /\ pc' = AfterDecision(action')
    /\ ret' = IF pc' = "ag_raised"
              THEN Raised(IF action'.kind = "raise" THEN "api" ELSE "type")
              ELSE IF pc' \in {"ag_invalid", "ag_done"}
                   THEN HistoryResult(history)
                   ELSE ret
    /\ UNCHANGED history
    /\ UNCHANGED agentFrame

\* a tool failure ends the run
AgExecuteAborting ==
    /\ pc = "ag_execute"
    /\ \E ok \in BOOLEAN :
        /\ calls' = IF KnownTool(action)
                    THEN Append(calls, Call(action.tool[1].value, iteration, ok))
                    ELSE calls
        /\ IF KnownTool(action) /\ ok
           THEN /\ history' = Append(history, SuccessRecord(iteration, action))
                /\ pc' = "ag_decide"
                /\ ret' = ret
           ELSE /\ history' = history
                /\ pc' = "ag_raised"
                /\ ret' = Raised("tool")
    /\ UNCHANGED <<iteration, action, transport, response>>
    /\ UNCHANGED agentFrame

\* the record of the latest action takes the place of the one before
AgExecuteOverwriting ==
    /\ pc = "ag_execute"
    /\ \E ok \in BOOLEAN :
        /\ calls' = IF KnownTool(action)
                    THEN Append(calls, Call(action.tool[1].value, iteration, ok))
                    ELSE calls
        /\ history' =
               <<IF KnownTool(action) /\ ok
                 THEN SuccessRecord(iteration, action)
                 ELSE FailureRecord(iteration, action, "tool")>>
    /\ pc' = "ag_decide"
    /\ UNCHANGED <<iteration, action, transport, response, ret>>
    /\ UNCHANGED agentFrame

\* extract_clip is refused while the history holds no successful analyze_scene
AgExecuteGuarded ==
    /\ pc = "ag_execute"
    /\ \E ok \in BOOLEAN :
        LET premature ==
                /\ KnownTool(action)
                /\ action.tool[1].value = "extract_clip"
                /\ ~\E j \in 1..Len(history) :
                       /\ history[j].success
                       /\ history[j].action.tool[1].value = "analyze_scene"
        IN  /\ calls' = IF KnownTool(action) /\ ~premature
                        THEN Append(calls, Call(action.tool[1].value, iteration, ok))
                        ELSE calls
            /\ history' =
                   Append(history,
                          IF KnownTool(action) /\ ok /\ ~premature
                          THEN SuccessRecord(iteration, action)
                          ELSE FailureRecord(iteration, action, "tool"))
    /\ pc' = "ag_decide"
    /\ UNCHANGED <<iteration, action, transport, response, ret>>
    /\ UNCHANGED agentFrame

\* a tool name outside the catalogue is resolved by reflection and called
AgExecuteReflecting ==
    /\ pc = "ag_execute"
    /\ \E ok \in BOOLEAN :
        /\ calls' = Append(calls, Call(action.tool[1].value, iteration, ok))
        /\ history' =
               Append(history,
                      IF ok THEN SuccessRecord(iteration, action)
                      ELSE FailureRecord(iteration, action, "tool"))
    /\ pc' = "ag_decide"
    /\ UNCHANGED <<iteration, action, transport, response, ret>>
    /\ UNCHANGED agentFrame

\* the try block of run: the tool is looked up and called; its result, or the
\* exception of the lookup or of the call, is appended to the history
AgExecute ==
    /\ pc = "ag_execute"
    /\ \E ok \in BOOLEAN :
        /\ calls' = IF KnownTool(action)
                    THEN Append(calls, Call(action.tool[1].value, iteration, ok))
                    ELSE calls
        /\ history' =
               Append(history,
                      IF KnownTool(action) /\ ok
                      THEN SuccessRecord(iteration, action)
                      ELSE FailureRecord(iteration, action,
                               IF KnownTool(action) THEN "tool" ELSE "KeyError"))
    /\ pc' = "ag_decide"
    /\ UNCHANGED <<iteration, action, transport, response, ret>>
    /\ UNCHANGED agentFrame

\* the loop ran max_iterations times: return state['history']
AgExhaust ==
    /\ pc = "ag_decide"
    /\ iteration >= max_iterations
    /\ pc' = "ag_exhausted"
    /\ ret' = HistoryResult(history)
    /\ UNCHANGED <<iteration, action, transport, response, history, calls>>
    /\ UNCHANGED agentFrame

AgentNext == AgDecide \/ AgExecute \/ AgExhaust

SpecAgent == AgentInit /\ [][AgentNext]_vars

\* the loop is the only thread: a run that can take a step takes it
SpecAgentLive == SpecAgent /\ WF_vars(AgentNext)

AgentEnded == pc \in {"ag_done", "ag_invalid", "ag_exhausted", "ag_raised"}

----------------------------------------------------------------------------
(* Claims about NemotronAgent.run *)

\* the decision requests made so far
DecideCalls == {k \in 1..Len(calls) : calls[k].op = "decide"}
\* the tool calls made in iteration i
ToolCalls(i) ==
    {k \in 1..Len(calls) : calls[k].op \in ToolNames /\ calls[k].arg = i}

\* the model answered the latest decision request with the text in response
Answered == iteration > 0 /\ transport = "ok"

\* a history came back from every run in which the model answered each request
HistoryReturned ==
    (AgentEnded /\ transport # "error") => ret = HistoryResult(history)

\* C14: for every max_iterations >= 0 and every sequence of model decisions
\* and tool outcomes, run terminates after at most max_iterations
\* decide/execute cycles and returns a history, and the length of the history
\* never decreases during the run.
C14_BoundedRun ==
    /\ <>AgentEnded
    /\ [](Cardinality(DecideCalls) <= max_iterations)
    /\ [](iteration <= max_iterations)
    /\ []HistoryReturned
    /\ [][Len(history') >= Len(history)]_vars

\* the latest answer is no structured object, or an object without tool
BadDecision ==
    /\ Answered
    /\ \/ extract_json(response).kind # "dict"
       \/ extract_json(response).tool = <<>>

\* C15: if the decision text cannot be parsed as a structured object, or the
\* parsed decision omits the tool field, no tool is executed for it, the loop
\* ends in the failure state and not in Done, and the history accumulated so
\* far is returned without a crash.
C15_BadDecisionFails ==
    BadDecision =>
        /\ pc \in {"ag_invalid", "ag_exhausted"}
        /\ ret = HistoryResult(history)
        /\ ToolCalls(iteration) = {}
        /\ Len(history) = iteration - 1

\* the step is the execution of a tool that raised
ToolRaised ==
    /\ pc = "ag_execute"
    /\ \/ ~KnownTool(action)
       \/ Len(calls') = Len(calls) + 1 /\ ~calls'[Len(calls')].ok

\* C16: when the tool invoked in an Executing step raises, exactly one Failure
\* record (success = false, with the error text) for that iteration is
\* appended to the history and the run goes on to the next Deciding step; a
\* tool failure never ends the run.
C16_ToolFailureRecorded ==
    [][ToolRaised =>
          /\ Len(history') = Len(history) + 1
          /\ SubSeq(history', 1, Len(history)) = history
          /\ history'[Len(history')].success = FALSE
          /\ history'[Len(history')].iteration = iteration
          /\ history'[Len(history')].action = action
          /\ "error" \in DOMAIN history'[Len(history')]
          /\ pc' = "ag_decide"
          /\ ret' = ret]_vars

\* a failed tool call was followed by another decision and tool call
C16_Witness ==
    /\ Len(history) >= 2
    /\ ~history[1].success
    /\ history[2].success
    /\ pc = "ag_exhausted"

\* the latest answer is an object that carries done = true
DoneDecision ==
    /\ Answered
    /\ extract_json(response).kind = "dict"
    /\ extract_json(response).done = <<TRUE>>

\* C17: when a decision carries done = true, run returns at once with the
\* full history of the actions executed before; the tool named in that
\* decision is neither executed nor recorded and no further decision is
\* requested.
C17_DoneReturnsHistory ==
    DoneDecision =>
        /\ pc \in {"ag_done", "ag_invalid"}
        /\ ret = HistoryResult(history)
        /\ ToolCalls(iteration) = {}
        /\ Len(history) = iteration - 1
        /\ Cardinality(DecideCalls) = iteration

\* C18: the history is append-only and ordered by iteration: every step
\* leaves it unchanged or appends exactly one record, the iteration numbers
\* of the records are strictly increasing, and at the Deciding step of
\* iteration i the history holds exactly i-1 records.
C18_AppendOnlyHistory ==
    /\ [][\/ history' = history
          \/ /\ Len(history') = Len(history) + 1
             /\ SubSeq(history', 1, Len(history)) = history]_vars
    /\ [](\A j, k \in 1..Len(history) :
              j < k => history[j].iteration < history[k].iteration)
    /\ [](pc = "ag_decide" => Len(history) = iteration)
    /\ [](pc = "ag_execute" => Len(history) = iteration - 1)

\* the Deciding step of the third iteration with two records in the history
C18_Witness ==
    /\ pc = "ag_decide"
    /\ iteration = 2
    /\ max_iterations > 2
    /\ Len(history) = 2
    /\ history[1].iteration = 1
    /\ history[2].iteration = 2

----------------------------------------------------------------------------
(* Claims about the scene loop of process_video, checked under Spec *)

\* the calls of one kind made for the scene with index idx
SceneCalls(kind, idx) ==
    {k \in 1..Len(calls) : calls[k].op = kind /\ calls[k].arg = idx}

ScoringFailed(idx) == \E k \in SceneCalls("score", idx) : ~calls[k].ok
FrameFailed(idx) == \E k \in SceneCalls("frame", idx) : ~calls[k].ok

\* the scene loop has gone through every detected scene
SceneLoopDone == pc \in {"pv_rank", "pv_clip", "pv_save"}

\* C19: when scoring a scene fails, the scene receives a default-score
\* record, is still counted in scenes_analyzed and remains eligible for
\* ranking; the run does not abort.
C19_ScoringFailureDefaults ==
    \A p \in 1..Len(scenes) :
        ScoringFailed(scenes[p].index) =>
            /\ \E j \in 1..Len(analyzed_scenes) :
                   /\ analyzed_scenes[j].index = scenes[p].index
                   /\ analyzed_scenes[j].analysis.score = DefaultScore
            /\ ret.kind # "raise"

\* C20: a scene whose frame extraction fails is never passed to the scoring
\* operation, never appears among the ranked clips, and does not stop the
\* remaining scenes from being processed.
C20_FrameFailureSkipsScene ==
    /\ \A p \in 1..Len(scenes) :
           FrameFailed(scenes[p].index) =>
               /\ SceneCalls("score", scenes[p].index) = {}
               /\ \A j \in 1..Len(analyzed_scenes) :
                      analyzed_scenes[j].index # scenes[p].index
               /\ \A j \in 1..Len(top_scenes) :
                      top_scenes[j].index # scenes[p].index
               /\ \A j \in 1..Len(results) :
                      results[j].timestamp # scenes[p].start
               /\ scene_i > p
               /\ ret.kind # "raise"
    /\ SceneLoopDone =>
           \A p \in 1..Len(scenes) : SceneCalls("frame", scenes[p].index) # {}

\* the frame of the first scene failed; the later scenes were scored and a
\* clip of one of them was extracted
C20_Witness ==
    /\ pc = "pv_done"
    /\ Len(scenes) = 3
    /\ FrameFailed(scenes[1].index)
    /\ Len(analyzed_scenes) = 2
    /\ Len(results) >= 1
    /\ ret.kind = "result"

----------------------------------------------------------------------------
(* Claims about the stages of process_video, checked under Spec *)

\* the calls of one kind made so far
CallsOf(kind) == {k \in 1..Len(calls) : calls[k].op = kind}

RunEnded == pc = "pv_done"

\* C21: whenever process_video ends with SegmentationEmpty or with
\* AnalysisEmpty it returns an error record and no clip-extraction call was
\* made before; for SegmentationEmpty no frame-extraction call was made
\* either.
C21_EmptyBeforeExtraction ==
    /\ (RunEnded /\ scenes = <<>> /\ CallsOf("detect") # {}) =>
           /\ ret = ErrorResult("no_scenes")
           /\ CallsOf("clip") = {}
           /\ CallsOf("frame") = {}
    /\ (RunEnded /\ scenes # <<>> /\ scene_i > Len(scenes)
            /\ analyzed_scenes = <<>>) =>
           /\ ret = ErrorResult("no_analysis")
           /\ CallsOf("clip") = {}

\* every scene was tried, one frame and one scoring failed, the run ended
\* with AnalysisEmpty
C21_Witness ==
    /\ RunEnded
    /\ Len(scenes) = 3
    /\ ret = ErrorResult("no_analysis")
    /\ \E k \in CallsOf("frame") : ~calls[k].ok
    /\ \E k \in CallsOf("score") : ~calls[k].ok

\* C22: when the video path does not exist, or the media probe reports the
\* file as unreadable, process_video returns an error record without
\* segmentation, frame extraction, scoring, clip extraction, creation of the
\* output directories or a metadata write.
C22_InputErrorsTouchNothing ==
    (~video.path_exists \/ ~video.probe_ok) =>
        /\ \A k \in 1..Len(calls) : calls[k].op = "probe"
        /\ ~video.path_exists => calls = <<>>
        /\ RunEnded => ret.kind = "error"
        /\ scenes = <<>> /\ analyzed_scenes = <<>> /\ results = <<>>

\* the probe of an existing file failed and the run ended with the error
C22_Witness ==
    /\ RunEnded
    /\ video.path_exists
    /\ ~video.probe_ok
    /\ CallsOf("probe") # {}
    /\ ret = ErrorResult("invalid_video")

\* the clips of the ranks whose extraction succeeded, in rank order
RECURSIVE SucceededClips(_)
SucceededClips(k) ==
    IF k = 0 THEN <<>>
    ELSE LET c == calls[k]
         IN  IF c.op = "clip" /\ c.ok
             THEN Append(SucceededClips(k - 1), ClipResult(c.arg, top_scenes[c.arg]))
             ELSE SucceededClips(k - 1)

\* the clip loop is over
ClipLoopDone == pc = "pv_save" \/ (RunEnded /\ ret.kind = "result")

\* C23: when extraction of a selected clip fails, that clip is absent from
\* the result list and every other selected clip is still attempted; a clip
\* is in the result list if and only if it was selected and its extraction
\* succeeded.
C23_ClipFailureSkipsClip ==
    /\ results = SucceededClips(Len(calls))
    /\ \A k \in CallsOf("clip") : calls[k].arg \in 1..Len(top_scenes)
    /\ ClipLoopDone =>
           \A r \in 1..Len(top_scenes) :
               Cardinality({k \in CallsOf("clip") : calls[k].arg = r}) = 1

\* the first of several selected clips failed and a later one was extracted
C23_Witness ==
    /\ RunEnded
    /\ Len(top_scenes) >= 2
    /\ \E k \in CallsOf("clip") : calls[k].arg = 1 /\ ~calls[k].ok
    /\ Len(results) >= 1

\* C24: in every RunResult the ranks of the listed clips are 1-based and
\* dense: the clip list of length n carries the ranks 1..n in order, for
\* every pattern of per-clip extraction success and failure.
C24_RanksDense ==
    (RunEnded /\ ret.kind = "result") =>
        \A j \in 1..Len(ret.clips) : ret.clips[j].rank = j

\* the metadata write was attempted and went through
MetadataWritten == \E k \in CallsOf("save") : calls[k].ok

CompletedScenes ==
    {p \in 1..Len(scenes) :
        /\ \E k \in SceneCalls("frame", scenes[p].index) : calls[k].ok
        /\ \E k \in SceneCalls("score", scenes[p].index) : calls[k].ok}

\* C26: in every RunResult clips_extracted is the number of listed clips,
\* scenes_analyzed the number of detected scenes whose frame extraction and
\* scoring both completed, total_scenes_detected the number of segmented
\* scenes, and clips_extracted <= scenes_analyzed <= total_scenes_detected.
C26_CountsReflectRun ==
    (RunEnded /\ ret.kind = "result") =>
        /\ ret.clips_extracted = Len(ret.clips)
        /\ ret.clips_extracted = Cardinality({k \in CallsOf("clip") : calls[k].ok})
        /\ ret.scenes_analyzed = Cardinality(CompletedScenes)
        /\ ret.total_scenes_detected = Len(scenes)
        /\ ret.clips_extracted <= ret.scenes_analyzed
        /\ ret.scenes_analyzed <= ret.total_scenes_detected

\* a skipped scene and a failed clip show as strictly lower counts
C26_Witness ==
    /\ RunEnded
    /\ ret.kind = "result"
    /\ ret.clips_extracted < ret.scenes_analyzed
    /\ ret.scenes_analyzed < ret.total_scenes_detected
    /\ ret.clips_extracted >= 1

----------------------------------------------------------------------------
(* Claims about tool dispatch in NemotronAgent.run, checked under SpecAgent *)

\* the history record of position j is a success of the named tool
SucceededAt(j, name) ==
    /\ j \in 1..Len(history)
    /\ history[j].success
    /\ history[j].action.tool[1].value = name

\* C28: the orchestrator does not block out-of-order tool calls: a decision
\* naming extract_clip while the history holds no successful analyze_scene or
\* detect_scenes record is executed and recorded like any other decision, and
\* a repeated analyze_scene for an already analyzed scene index is executed
\* again.
C28_NoOrderingGuard ==
    [][(pc = "ag_execute" /\ KnownTool(action)) =>
          /\ Len(calls') = Len(calls) + 1
          /\ calls'[Len(calls')].op = action.tool[1].value
          /\ calls'[Len(calls')].arg = iteration
          /\ Len(history') = Len(history) + 1
          /\ history'[Len(history')].action = action
          /\ history'[Len(history')].success = calls'[Len(calls')].ok
          /\ pc' = "ag_decide"]_vars

\* extract_clip succeeded on an empty history, then the same scene was
\* analyzed twice
C28_Witness ==
    /\ Len(history) = 3
    /\ SucceededAt(1, "extract_clip")
    /\ SucceededAt(2, "analyze_scene")
    /\ SucceededAt(3, "analyze_scene")
    /\ history[2].action.params = history[3].action.params
    /\ Cardinality({k \in 1..Len(calls) : calls[k].op = "analyze_scene"}) = 2

\* the step executes a decision whose tool is not in the catalogue
UnknownToolStep == pc = "ag_execute" /\ ~KnownTool(action)

\* C30: a decision whose tool name is not in the tool catalogue is rejected
\* as a decision-parse failure: no handler is invoked and the loop treats it
\* as terminal, instead of recording a tool Failure and continuing.
C30_UnknownToolTerminal ==
    [][UnknownToolStep =>
          /\ calls' = calls
          /\ history' = history
          /\ pc' \in {"ag_invalid", "ag_exhausted"}]_vars

\* the amended claim: no handler is invoked, the failed lookup is recorded as
\* a tool Failure of the iteration and the loop continues
C30_UnknownToolRecorded ==
    [][UnknownToolStep =>
          /\ calls' = calls
          /\ history' = Append(history, FailureRecord(iteration, action, "KeyError"))
          /\ pc' = "ag_decide"]_vars

\* an unknown tool was recorded as a failure and a later tool call succeeded
C30_Witness ==
    /\ Len(history) >= 2
    /\ ~history[1].success
    /\ history[1].error = "KeyError"
    /\ history[1].action.tool[1].value \notin ToolNames
    /\ history[2].success

----------------------------------------------------------------------------
(* NemotronAgent._format_history *)

MaxHistory == 6
TopShown == 5
RecentShown == 3

\* a decision as run stores it in a history record
ToolAction(name, params) ==
    [EmptyDict EXCEPT !.tool = <<JsonString(name)>>, !.params = params]

\* a history record whose tool returned the text result
ResultRecord(i, a, result) ==
    [iteration |-> i, action |-> a, success |-> TRUE, result |-> result]

\* the records a run can leave at position i for the scene with index i - 1:
\* analyze_scene with the score 85 or 30 in its result and a failed
\* analyze_scene; the first analysis may also score {} and the second may be
\* an analysis of scene 0 again whose result is no JSON
AnalyzeRecords(i) ==
    { ResultRecord(i, ToolAction("analyze_scene", <<SceneParams(i - 1)>>),
                   <<"LB", "KS", n, "RB">>) : n \in {"N85", "N30"} }
    \cup
    { FailureRecord(i, ToolAction("analyze_scene", <<SceneParams(i - 1)>>), "tool") }
    \cup
    (IF i = 1
     THEN { ResultRecord(i, ToolAction("analyze_scene", <<SceneParams(i - 1)>>),
                         <<"LB", "KS", "LB", "RB", "RB">>) }
     ELSE {})
    \cup
    (IF i = 2
     THEN { ResultRecord(i, ToolAction("analyze_scene", <<SceneParams(0)>>), <<"W">>) }
     ELSE {})

RECURSIVE AnalyzeHistories(_)
AnalyzeHistories(n) ==
    IF n = 0 THEN {<<>>}
    ELSE {Append(h, r) : h \in AnalyzeHistories(n - 1), r \in AnalyzeRecords(n)}

\* a detect_scenes record, successful with a count or failed
DetectRecords(i) ==
    { ResultRecord(i, ToolAction("detect_scenes", <<>>), <<"LB", "KC", "N30", "RB">>),
      FailureRecord(i, ToolAction("detect_scenes", <<>>), "tool") }

ClipRecord(i) == ResultRecord(i, ToolAction("extract_clip", <<SceneParams(0)>>), <<"W">>)

\* the records numbered by iteration, as run appends them
Renumber(h) == [k \in 1..Len(h) |-> [h[k] EXCEPT !.iteration = k]]

\* histories of at most n analyses, after an optional detect_scenes record
\* and before an optional extract_clip record
Histories(n) ==
    LET analyses == UNION {AnalyzeHistories(m) : m \in 0..n}
        detected == analyses \cup
                    {<<d>> \o h : d \in DetectRecords(0), h \in analyses}
    IN  {Renumber(h) : h \in detected \cup
                              {Append(h, ClipRecord(0)) : h \in detected}}

ToolOf(entry) == entry.action.tool[1].value

\* params.get('scene_index', -1)
SceneIndexOf(entry) ==
    IF entry.action.params = <<>> THEN -1
    ELSE entry.action.params[1].scene_index

\* json.loads(entry['result']).get(key, 0); 0 as well when that raises
ResultField(entry, key) ==
    LET r == JsonLoads(entry.result)
    IN  IF r.kind # "dict" THEN JsonNumber(0)
        ELSE IF key = "count"
             THEN (IF r.count = <<>> THEN JsonNumber(0) ELSE r.count[1])
             ELSE (IF r.score = <<>> THEN JsonNumber(0) ELSE r.score[1])

\* scene_scores[idx] = score: a new key goes last, a known key keeps its place
SetScore(dict, idx, score) ==
    IF \E j \in 1..Len(dict) : dict[j].index = idx
    THEN [j \in 1..Len(dict) |->
             IF dict[j].index = idx THEN [index |-> idx, score |-> score]
             ELSE dict[j]]
    ELSE Append(dict, [index |-> idx, score |-> score])

\* the first loop of _format_history over the records up to position k
RECURSIVE SceneScores(_, _)
SceneScores(h, k) ==
    IF k = 0 THEN <<>>
    ELSE IF ToolOf(h[k]) = "analyze_scene" /\ h[k].success
         THEN SetScore(SceneScores(h, k - 1), SceneIndexOf(h[k]),
                       ResultField(h[k], "score"))
         ELSE SceneScores(h, k - 1)

DetectedAt(h) ==
    {k \in 1..Len(h) : ToolOf(h[k]) = "detect_scenes" /\ h[k].success}

\* total_scenes after the records up to position k: the count in the result of
\* a successful detect_scenes record, kept as it was when that result does not
\* parse (except: pass)
RECURSIVE TotalScenesUpTo(_, _)
TotalScenesUpTo(h, k) ==
    IF k = 0 THEN JsonNumber(0)
    ELSE IF k \in DetectedAt(h) /\ JsonLoads(h[k].result).kind = "dict"
         THEN ResultField(h[k], "count")
         ELSE TotalScenesUpTo(h, k - 1)

TotalScenes(h) == TotalScenesUpTo(h, Len(h))

ExtractedClips(h) ==
    {k \in 1..Len(h) : ToolOf(h[k]) = "extract_clip" /\ h[k].success}

\* sorted(..., key=score, reverse=True) compares the scores: more than one
\* item needs numbers
Sortable(dict) ==
    Len(dict) <= 1 \/ \A j \in 1..Len(dict) : dict[j].score.kind = "number"

\* the item goes in after those with a score at least as high
InsertScored(x, sorted) ==
    LET before == {k \in 1..Len(sorted) : sorted[k].score.value >= x.score.value}
        n == IF before = {} THEN 0 ELSE SetMax(before)
    IN  SubSeq(sorted, 1, n) \o <<x>> \o SubSeq(sorted, n + 1, Len(sorted))

RECURSIVE SortedScores(_)
SortedScores(dict) ==
    IF Len(dict) <= 1 THEN dict
    ELSE InsertScored(dict[Len(dict)], SortedScores(SubSeq(dict, 1, Len(dict) - 1)))

\* history[-3:] as the lines iteration, success mark, tool, params
RecentActions(h) ==
    LET from == Max(1, Len(h) - RecentShown + 1)
    IN  [k \in 1..(Len(h) - from + 1) |->
            [iteration |-> h[from + k - 1].iteration,
             success |-> h[from + k - 1].success,
             tool |-> ToolOf(h[from + k - 1]),
             params |-> h[from + k - 1].action.params]]

\* what the text returned by _format_history shows
format_history(h) ==
    IF h = <<>> THEN [kind |-> "no_actions"]
    ELSE LET dict == SceneScores(h, Len(h))
         IN  IF dict # <<>> /\ ~Sortable(dict) THEN Raised("type")
             ELSE [kind |-> "summary",
                   detected |-> IF DetectedAt(h) # {} THEN <<TotalScenes(h)>>
                                ELSE <<>>,
                   analyzed |-> IF dict # <<>> THEN <<Len(dict)>> ELSE <<>>,
                   top |-> IF dict # <<>>
                           THEN PySlice(SortedScores(dict), TopShown)
                           ELSE <<>>,
                   clips |-> Cardinality(ExtractedClips(h)),
                   hint |-> /\ JsonNumber(Len(dict)) = TotalScenes(h)
                            /\ ExtractedClips(h) = {}
                            /\ TotalScenes(h).kind = "number"
                            /\ TotalScenes(h).value > 0,
                   recent |-> RecentActions(h)]

\* _decide_action formats state['history'] for the prompt (line 93)
HistInit ==
    /\ pc = "fh_call"
    /\ history \in Histories(MaxHistory)
    /\ max_iterations = MaxHistory + 3
    /\ iteration = Len(history) + 1
    /\ action = NoRecord
    /\ record = NoRecord
    /\ op = "agent"
    /\ transport = "ok"
    /\ response = <<>>
    /\ video = ScenarioVideo
    /\ config = DefaultConfig
    /\ max_scenes = DefaultMaxScenes
    /\ count = 0
    /\ scenes = <<>>
    /\ scene_i = 0
    /\ analyzed_scenes = <<>>
    /\ top_scenes = <<>>
    /\ rank = 0
    /\ results = <<>>
    /\ ret = NoRecord
    /\ calls = <<>>

FormatHistory ==
    /\ pc = "fh_call"
    /\ record' = format_history(history)
    /\ pc' = "fh_done"
    /\ UNCHANGED <<op, transport, response>>
    /\ UNCHANGED pipelineVars
    /\ UNCHANGED agentVars

HistNext == FormatHistory

SpecHistory == HistInit /\ [][HistNext]_vars

\* scene indices with a successful analyze_scene record
AnalyzedIndices(h) ==
    {SceneIndexOf(h[k]) : k \in {j \in 1..Len(h) :
                                   ToolOf(h[j]) = "analyze_scene" /\ h[j].success}}

\* scene indices that the formatted history shows: in the top scenes, or in a
\* recent action line of a successful analyze_scene
SurfacedIndices(r) ==
    {r.top[k].index : k \in 1..Len(r.top)}
        \cup {IF r.recent[k].params = <<>> THEN -1
              ELSE r.recent[k].params[1].scene_index :
                  k \in {j \in 1..Len(r.recent) :
                           r.recent[j].tool = "analyze_scene" /\ r.recent[j].success}}

\* C29: the formatted history shows the detected count after a successful
\* detect_scenes, and shows every scene index that has a successful
\* analyze_scene record and no index of a failed one only
C29_HistorySurfacesAnalyzed ==
    (pc = "fh_done" /\ record.kind = "summary") =>
        /\ DetectedAt(history) # {} => record.detected = <<TotalScenes(history)>>
        /\ SurfacedIndices(record) = AnalyzedIndices(history)

----------------------------------------------------------------------------
(* The two control paths *)

\* clips in the result of process_video for the video when every tool
\* succeeds: every scene is analyzed and ranked_scenes[:count] are extracted
FixedPathClips == Len(PySlice(detect_scenes(video, max_scenes, config), count))

\* clips the autonomous run extracted: its successful extract_clip records
AgentClips == Cardinality(ExtractedClips(history))

AllToolsSucceeded == \A k \in 1..Len(history) : history[k].success

\* C27: when the autonomous run returns and every tool it called succeeded,
\* it has extracted as many clips as process_video returns for the same video
\* and clip count with every tool succeeding
C27_PathsEquivalent ==
    (AgentEnded /\ ret.kind = "history" /\ AllToolsSucceeded) =>
        AgentClips = FixedPathClips

----------------------------------------------------------------------------
(* A failed request of a Deciding step *)

\* the latest request to the reasoning service failed at transport level
RequestFailed == iteration > 0 /\ transport = "error"

\* C31: when the request of a Deciding step fails at transport level, run
\* propagates the error: it ends with the exception, no tool is called and no
\* record is appended for that iteration, and no history is returned
C31_RequestFailurePropagates ==
    RequestFailed =>
        /\ pc = "ag_raised"
        /\ ret = Raised("api")
        /\ ret.kind # "history"
        /\ ToolCalls(iteration) = {}
        /\ Len(history) = iteration - 1
        /\ \A k \in 1..Len(history) : history[k].iteration < iteration

\* the request of the third iteration failed after two recorded iterations
C31_Witness ==
    /\ RequestFailed
    /\ pc = "ag_raised"
    /\ iteration = 3
    /\ Len(history) = 2

----------------------------------------------------------------------------
(* The order of the stages of process_video, checked under Spec *)

\* the calls of the scene loop, in the order they were made
SceneLoopCalls == {k \in 1..Len(calls) : calls[k].op \in {"frame", "score"}}

\* C32: a scene is scored only right after its own frame was extracted
\* successfully, the scenes are tried one at a time in ascending index order,
\* and no clip is extracted before the frame/scoring attempt of every detected
\* scene has finished
C32_StagesInOrder ==
    /\ \A k \in CallsOf("score") :
           /\ k > 1
           /\ calls[k - 1] = Call("frame", calls[k].arg, TRUE)
    /\ \A j, k \in CallsOf("frame") : j < k => calls[j].arg < calls[k].arg
    /\ \A j, k \in CallsOf("score") : j < k => calls[j].arg < calls[k].arg
    /\ \A j \in CallsOf("frame") :
           (calls[j].ok /\ j < Len(calls)) => calls[j + 1].op = "score"
    /\ \A c \in CallsOf("clip") :
           /\ \A k \in SceneLoopCalls : k < c
           /\ \A p \in 1..Len(scenes) :
                  /\ SceneCalls("frame", scenes[p].index) # {}
                  /\ ~FrameFailed(scenes[p].index) =>
                         SceneCalls("score", scenes[p].index) # {}

\* three scenes went through the loop, one of them without a frame, and two
\* clips were attempted afterwards
C32_Witness ==
    /\ RunEnded
    /\ Len(scenes) = 3
    /\ Cardinality(CallsOf("frame")) = 3
    /\ Cardinality(CallsOf("score")) = 2
    /\ Cardinality(CallsOf("clip")) = 2

\* C33: a failure of the metadata write does not change the outcome: once
\* the write was attempted the run returns the success record built from the
\* scenes and clips of the run, whatever the write returned
C33_WriteFailureUnreported ==
    (RunEnded /\ CallsOf("save") # {}) =>
        /\ ret.kind = "result"
        /\ ret = OutputMetadata

\* a run that extracted a clip returned its success record although the
\* metadata write failed
C33_Witness ==
    /\ RunEnded
    /\ ~MetadataWritten
    /\ CallsOf("save") # {}
    /\ Len(results) >= 1
    /\ ret = OutputMetadata

====
